---- MODULE Spec2Model ----
(***************************************************************************)
(* Model of the zomato-viz restaurant dashboard: the probabilistic         *)
(* imputation of missing service flags (data_imputation.py) and the        *)
(* process-wide dataset handle of the Flask server (server.py).            *)
(*                                                                         *)
(* A data frame is a sequence of rows in positional order; each row is a   *)
(* record carrying its index label "idx" and its columns.  Column names    *)
(* keep the CSV headers, with "_" for the blank.  A missing value is the   *)
(* string NaN; a mean is the exact fraction [num, den], and the mean of    *)
(* no rows is 0/0, which plays the part of the floating-point NaN.         *)
(***************************************************************************)
EXTENDS Integers, Sequences, FiniteSets, TLC

\* ------------------------------------------------------------------ bounds
\* Largest number of rows of an input table.
MaxRows == 2
\* The random draws of [0,1) are the fractions 0/DrawDen .. (DrawDen-1)/DrawDen.
DrawDen == 2

\* Number of request-handling threads of the server.
MaxThreads == 2

\* ------------------------------------------------------------ value domains
NaN == "NaN"
\* Index labels an input row may carry: one more label than rows, so that a
\* table may have gaps (rows removed by dropna keep their labels).
Labels == 0..MaxRows
Cities == {"A", "B"}
\* City values of a table handed to the imputer (a missing city included).
CityValues == Cities \cup {NaN}
Draws == 0..(DrawDen - 1)

\* Raw contents of the three service columns of one CSV row.
RawServiceCases ==
  { [Has_Table_booking |-> NaN,   Has_Online_delivery |-> NaN,   Is_delivering_now |-> NaN],
    [Has_Table_booking |-> "Yes", Has_Online_delivery |-> "No",  Is_delivering_now |-> "No"],
    [Has_Table_booking |-> "No",  Has_Online_delivery |-> "yes", Is_delivering_now |-> NaN],
    [Has_Table_booking |-> NaN,   Has_Online_delivery |-> NaN,   Is_delivering_now |-> "No"],
    [Has_Table_booking |-> "YES", Has_Online_delivery |-> "Yes", Is_delivering_now |-> "Yes"] }

\* ------------------------------------------------------------------ helpers
\* The elements of a finite set of integers in ascending order.
SortedSeq(S) ==
  [i \in 1..Cardinality(S) |-> CHOOSE x \in S : Cardinality({y \in S : y < x}) = i - 1]

\* Index labels of a frame, as a set and in positional order.
IndexOf(frame) == {frame[i].idx : i \in DOMAIN frame}
IndexSeq(frame) == [i \in DOMAIN frame |-> frame[i].idx]

\* str.lower() on the strings that occur in the service columns.
Lower(s) ==
  CASE s = "Yes" -> "yes"
    [] s = "YES" -> "yes"
    [] s = "yes" -> "yes"
    [] s = "No"  -> "no"
    [] OTHER     -> s

\* Series.fillna(value) on one cell.
fillna(v, value) == IF v = NaN THEN value ELSE v

\* df[col].fillna('No').str.lower() == 'yes' on one cell.
CoerceService(v) == Lower(fillna(v, "No")) = "yes"

\* original_services = df[[three service columns]].copy(): same index, raw cells.
original_services_of(raw) ==
  [i \in DOMAIN raw |->
     [idx                 |-> raw[i].idx,
      Has_Table_booking   |-> raw[i].Has_Table_booking,
      Has_Online_delivery |-> raw[i].Has_Online_delivery,
      Is_delivering_now   |-> raw[i].Is_delivering_now]]

\* The three boolean columns after coercion; every other column is kept.
CoerceServices(raw) ==
  [i \in DOMAIN raw |->
     [raw[i] EXCEPT !.Has_Table_booking   = CoerceService(raw[i].Has_Table_booking),
                    !.Has_Online_delivery = CoerceService(raw[i].Has_Online_delivery),
                    !.Is_delivering_now   = CoerceService(raw[i].Is_delivering_now)]]

\* ------------------------------------------------------- exact probabilities
Undefined == [num |-> 0, den |-> 0]
IsNaNProb(p) == p.den = 0
\* A mean whose sum runs over the whole frame instead of the rows at P.
MeanOver_sum_of_frame(frame, P, col) ==
  [num |-> Cardinality({i \in DOMAIN frame : frame[i][col]}), den |-> Cardinality(P)]
\* Series.mean() of a boolean column over the rows at positions P of frame.
MeanOver(frame, P, col) ==
  [num |-> Cardinality({i \in P : frame[i][col]}), den |-> Cardinality(P)]
\* np.random.rand() < p for the draw d/DrawDen; any comparison with NaN is False.
DrawLess(d, p) == IF IsNaNProb(p) THEN FALSE ELSE d * p.den < p.num * DrawDen

\* ------------------------------------------- impute_missing_services, by parts
\* A grouping that puts every row in every group.
CityGroup_ungrouped(frame, c) == DOMAIN frame
\* Positions of the rows that groupby('City') puts in the group of city c.
CityGroup(frame, c) == {i \in DOMAIN frame : frame[i].City = c}

\* df.groupby('City').agg(prob_booking=(.., 'mean'), prob_delivery=(.., 'mean')):
\* one entry per city that occurs; groupby drops the rows whose key is missing.
city_probabilities_of(frame) ==
  [c \in {frame[i].City : i \in DOMAIN frame} \ {NaN} |->
     [prob_booking  |-> MeanOver(frame, CityGroup(frame, c), "Has_Table_booking"),
      prob_delivery |-> MeanOver(frame, CityGroup(frame, c), "Has_Online_delivery")]]

\* The mask with any(axis=1) in place of all(axis=1).
no_services_mask_any(orig) ==
  [l \in IndexOf(orig) |->
     LET r == CHOOSE x \in {orig[i] : i \in DOMAIN orig} : x.idx = l
     IN  \/ r.Has_Table_booking = NaN
         \/ r.Has_Online_delivery = NaN
         \/ r.Is_delivering_now = NaN]
\* original_services_df.isnull().all(axis=1): a boolean Series over the mask's index.
no_services_mask_of(orig) ==
  [l \in IndexOf(orig) |->
     LET r == CHOOSE x \in {orig[i] : i \in DOMAIN orig} : x.idx = l
     IN  /\ r.Has_Table_booking = NaN
         /\ r.Has_Online_delivery = NaN
         /\ r.Is_delivering_now = NaN]

\* A boolean Series can index df only if it has a value for every label of df.
Alignable(frame, mask) == IndexOf(frame) \subseteq DOMAIN mask

\* df[no_services_mask].copy(): the selected rows, labels kept, order kept.
select_rows(frame, mask) == SelectSeq(frame, LAMBDA r : mask[r.idx])

\* restaurants_to_impute.merge(city_probabilities, on='City', how='left'):
\* left rows in order, the result re-labelled 0..k-1, the two probability
\* columns missing where the city has no entry.
merge_left(rows, cp) ==
  [j \in DOMAIN rows |->
     [row           |-> [rows[j] EXCEPT !.idx = j - 1],
      prob_booking  |-> IF rows[j].City \in DOMAIN cp
                        THEN cp[rows[j].City].prob_booking ELSE Undefined,
      prob_delivery |-> IF rows[j].City \in DOMAIN cp
                        THEN cp[rows[j].City].prob_delivery ELSE Undefined]]

\* A fill that is lost (made on a temporary copy of the column).
fillna_prob_lost(p, global) == p
\* Series.fillna(global, inplace=True) on one probability cell.
fillna_prob(p, global) == IF IsNaNProb(p) THEN global ELSE p

\* Labels of the merged frame.
merged_index(merged) == {merged[j].row.idx : j \in DOMAIN merged}

\* np.random.rand(k) < merged[col]: a boolean Series over the merged labels.
imputed_of(merged, col, d) ==
  [l \in merged_index(merged) |-> DrawLess(d[l + 1], merged[l + 1][col])]

\* An assignment that spills into the Is_delivering_now column.
loc_set_spilling(frame, labels, col, series) ==
  [i \in DOMAIN frame |->
     IF frame[i].idx \in labels
     THEN [frame[i] EXCEPT ![col] = series[frame[i].idx],
                           !.Is_delivering_now = series[frame[i].idx]]
     ELSE frame[i]]
\* df.loc[labels, col] = series: every label must be in df's index (KeyError
\* otherwise); the values are aligned to the rows by label.
loc_ok(frame, labels) == labels \subseteq IndexOf(frame)
loc_set(frame, labels, col, series) ==
  [i \in DOMAIN frame |->
     IF frame[i].idx \in labels
     THEN [frame[i] EXCEPT ![col] = series[frame[i].idx]]
     ELSE frame[i]]

\* ------------------------------------------------------ one call of the imputer
\* The local state of a call of impute_missing_services(df, original_services_df).
NoSeries == [l \in {} |-> FALSE]
\* The columns of a frame are those of its rows; of a frame without rows the
\* model says which they are: by default the ones the imputer reads.
ImputerColumns == {"City", "Has_Table_booking", "Has_Online_delivery", "Is_delivering_now"}
ColumnsOf(frame) == IF frame = <<>> THEN ImputerColumns ELSE DOMAIN frame[1] \ {"idx"}
NewCallOn(frame, columns, orig) ==
  [pc                    |-> "groupby",
   df                    |-> frame,
   columns               |-> columns,
   original_services_df  |-> orig,
   city_probabilities    |-> [c \in {} |-> Undefined],
   restaurants_to_impute |-> <<>>,
   global_prob_booking   |-> Undefined,
   global_prob_delivery  |-> Undefined,
   imputed_booking       |-> NoSeries,
   imputed_delivery      |-> NoSeries,
   raised                |-> "none"]
NewCall(frame, orig) == NewCallOn(frame, ColumnsOf(frame), orig)

\* The frame of the call has the column, rows or no rows.
HasColumn(c, col) == col \in c.columns

\* Lines 21-25; groupby('City') on a frame without that column raises KeyError.
call_groupby(c) ==
  IF HasColumn(c, "City")
  THEN [c EXCEPT !.pc = "select", !.city_probabilities = city_probabilities_of(c.df)]
  ELSE [c EXCEPT !.pc = "done", !.raised = "KeyError"]

\* Lines 27-40: mask, selection, merge, global means, fill of missing probabilities.
call_select(c) ==
  LET mask == no_services_mask_of(c.original_services_df) IN
  IF ~Alignable(c.df, mask)
  THEN [c EXCEPT !.pc = "done", !.raised = "IndexingError"]
  ELSE
    LET merged == merge_left(select_rows(c.df, mask), c.city_probabilities)
        gb == MeanOver(c.df, DOMAIN c.df, "Has_Table_booking")
        gd == MeanOver(c.df, DOMAIN c.df, "Has_Online_delivery")
    IN [c EXCEPT !.pc = "sample",
                 !.global_prob_booking = gb,
                 !.global_prob_delivery = gd,
                 !.restaurants_to_impute =
                    [j \in DOMAIN merged |->
                       [merged[j] EXCEPT !.prob_booking  = fillna_prob(@, gb),
                                         !.prob_delivery = fillna_prob(@, gd)]]]

\* Lines 44-45: d1 and d2 are the two vectors of draws, one draw per merged row.
call_sample(c, d1, d2) ==
  [c EXCEPT !.pc = "write_booking",
            !.imputed_booking  = imputed_of(c.restaurants_to_impute, "prob_booking", d1),
            !.imputed_delivery = imputed_of(c.restaurants_to_impute, "prob_delivery", d2)]

\* Line 48.
call_write_booking(c) ==
  LET labels == merged_index(c.restaurants_to_impute) IN
  IF loc_ok(c.df, labels)
  THEN [c EXCEPT !.pc = "write_delivery",
                 !.df = loc_set(c.df, labels, "Has_Table_booking", c.imputed_booking)]
  ELSE [c EXCEPT !.pc = "done", !.raised = "KeyError"]

\* Line 49.
call_write_delivery(c) ==
  LET labels == merged_index(c.restaurants_to_impute) IN
  IF loc_ok(c.df, labels)
  THEN [c EXCEPT !.pc = "return",
                 !.df = loc_set(c.df, labels, "Has_Online_delivery", c.imputed_delivery)]
  ELSE [c EXCEPT !.pc = "done", !.raised = "KeyError"]

\* Lines 51-55.
call_return(c) == [c EXCEPT !.pc = "done"]

\* The vectors of k draws.
DrawVectors(k) == [1..k -> Draws]

\* ------------------------------------------------- the imputer on its own
\* Input tables: up to MaxRows rows with ascending labels, any city (or none),
\* any of the raw service cases.
RawRows(S) ==
  {[i \in 1..Cardinality(S) |->
      [idx                 |-> SortedSeq(S)[i],
       City                |-> f[i].City,
       Has_Table_booking   |-> f[i].svc.Has_Table_booking,
       Has_Online_delivery |-> f[i].svc.Has_Online_delivery,
       Is_delivering_now   |-> f[i].svc.Is_delivering_now]] :
   f \in [1..Cardinality(S) -> [City : CityValues, svc : RawServiceCases]]}

\* ----------------------------------------- the filters of the read endpoints
\* The columns the filters and the analytics read are kept in rows of their
\* own: [idx, Restaurant_Name, City, Cuisines, Aggregate_rating,
\* Average_Cost_for_two, Price_range], as they are after the cleaning of lines
\* 94-100 (no missing value).  A rating is in tenths: 4.0 is 40.

\* request.args.get of a parameter the query string does not carry.
NoArg == "<None>"
\* Python truth of a query parameter: None and '' are false.
Truthy(x) == x # NoArg /\ x # ""
NoArgs == [city |-> NoArg, price_range |-> NoArg, min_rating |-> NoArg, search |-> ""]

\* The characters of the strings of the model.
Chars(s) ==
  CASE s = "" -> <<>>
    [] s = "A" -> <<"A">>
    [] s = "B" -> <<"B">>
    [] s = "b" -> <<"b">>
    [] s = "Ab" -> <<"A", "b">>
    [] s = "c" -> <<"c">>
    [] s = "d" -> <<"d">>
    [] s = "." -> <<".">>
\* str.lower, character by character.
LowerChar(c) == CASE c = "A" -> "a" [] c = "B" -> "b" [] OTHER -> c
lower(cs) == [i \in DOMAIN cs |-> LowerChar(cs[i])]
\* Series.str.contains(pat): re.search of the pattern, whose characters are
\* literals except '.', which matches any character.
MatchAt(text, pat, k) ==
  \A j \in 1..Len(pat) : pat[j] = "." \/ text[k + j - 1] = pat[j]
str_contains(text, pat) ==
  \E k \in 1..(Len(text) - Len(pat) + 1) : MatchAt(text, pat, k)

\* int(price_range) and float(min_rating): the number, or ValueError for a
\* string that is not one.
IsInt(s) == s \in {"1", "2"}
int(s) == CASE s = "1" -> 1 [] s = "2" -> 2
IsFloat(s) == s \in {"4.0"}
float(s) == CASE s = "4.0" -> 40

\* The dtype of the 'Restaurant Name' column of the loaded frame.  read_csv
\* (line 74) types a column without any text float64; a file with rows, all
\* without a name, leaves after dropna (line 91) a frame of no rows in which
\* fillna('Unknown') (line 94) has nothing to fill, so the column stays
\* float64 and .str on it raises AttributeError.  In every other frame,
\* the frame of a header-only file included, the column is object.
NameDtypes(df) == IF df = <<>> THEN {"object", "float64"} ELSE {"object"}

\* What a filter block leaves in filtered_df, or the exception it raised.
Raised(e) == [raised |-> e, rows |-> <<>>]
FilteredTo(rows) == [raised |-> "none", rows |-> rows]

\* get_data, lines 201-226.
get_data_filtered_df(df, name_dtype, a) ==
  LET search == lower(Chars(a.search))
      by_city == IF Truthy(a.city) /\ a.city # "all"
                 THEN SelectSeq(df, LAMBDA r : r.City = a.city)
                 ELSE df
  IN  IF Truthy(a.price_range) /\ a.price_range # "all" /\ ~IsInt(a.price_range)
      THEN Raised("ValueError")
      ELSE
        LET by_price == IF Truthy(a.price_range) /\ a.price_range # "all"
                        THEN SelectSeq(by_city,
                                       LAMBDA r : r.Price_range = int(a.price_range))
                        ELSE by_city
        IN  IF Truthy(a.min_rating) /\ ~IsFloat(a.min_rating)
            THEN Raised("ValueError")
            ELSE
              LET by_rating == IF Truthy(a.min_rating)
                               THEN SelectSeq(by_price,
                                      LAMBDA r : r.Aggregate_rating >= float(a.min_rating))
                               ELSE by_price
                  by_search == IF search # <<>>
                               THEN SelectSeq(by_rating,
                                      LAMBDA r :
                                        \/ str_contains(lower(Chars(r.Restaurant_Name)), search)
                                        \/ str_contains(lower(Chars(r.Cuisines)), search)
                                        \/ str_contains(lower(Chars(r.City)), search))
                               ELSE by_rating
              IN  IF search # <<>> /\ name_dtype = "float64"
                  THEN Raised("AttributeError")
                  ELSE FilteredTo(by_search)

\* get_stats, lines 252-275.
get_stats_filtered_df(df, name_dtype, a) ==
  LET search == lower(Chars(a.search))
      by_city == IF Truthy(a.city) /\ a.city # "all"
                 THEN SelectSeq(df, LAMBDA r : r.City = a.city)
                 ELSE df
  IN  IF Truthy(a.price_range) /\ a.price_range # "all" /\ ~IsInt(a.price_range)
      THEN Raised("ValueError")
      ELSE
        LET by_price == IF Truthy(a.price_range) /\ a.price_range # "all"
                        THEN SelectSeq(by_city,
                                       LAMBDA r : r.Price_range = int(a.price_range))
                        ELSE by_city
        IN  IF Truthy(a.min_rating) /\ ~IsFloat(a.min_rating)
            THEN Raised("ValueError")
            ELSE
              LET by_rating == IF Truthy(a.min_rating)
                               THEN SelectSeq(by_price,
                                      LAMBDA r : r.Aggregate_rating >= float(a.min_rating))
                               ELSE by_price
                  by_search == IF search # <<>>
                               THEN SelectSeq(by_rating,
                                      LAMBDA r :
                                        \/ str_contains(lower(Chars(r.Restaurant_Name)), search)
                                        \/ str_contains(lower(Chars(r.Cuisines)), search)
                                        \/ str_contains(lower(Chars(r.City)), search))
                               ELSE by_rating
              IN  IF search # <<>> /\ name_dtype = "float64"
                  THEN Raised("AttributeError")
                  ELSE FilteredTo(by_search)

\* apply_filters, lines 440-466.
apply_filters(df, name_dtype, a) ==
  LET search == lower(Chars(a.search))
      by_city == IF Truthy(a.city) /\ a.city # "all"
                 THEN SelectSeq(df, LAMBDA r : r.City = a.city)
                 ELSE df
  IN  IF Truthy(a.price_range) /\ a.price_range # "all" /\ ~IsInt(a.price_range)
      THEN Raised("ValueError")
      ELSE
        LET by_price == IF Truthy(a.price_range) /\ a.price_range # "all"
                        THEN SelectSeq(by_city,
                                       LAMBDA r : r.Price_range = int(a.price_range))
                        ELSE by_city
        IN  IF Truthy(a.min_rating) /\ ~IsFloat(a.min_rating)
            THEN Raised("ValueError")
            ELSE
              LET by_rating == IF Truthy(a.min_rating)
                               THEN SelectSeq(by_price,
                                      LAMBDA r : r.Aggregate_rating >= float(a.min_rating))
                               ELSE by_price
                  by_search == IF search # <<>>
                               THEN SelectSeq(by_rating,
                                      LAMBDA r :
                                        \/ str_contains(lower(Chars(r.Restaurant_Name)), search)
                                        \/ str_contains(lower(Chars(r.Cuisines)), search)
                                        \/ str_contains(lower(Chars(r.City)), search))
                               ELSE by_rating
              IN  IF search # <<>> /\ name_dtype = "float64"
                  THEN Raised("AttributeError")
                  ELSE FilteredTo(by_search)

\* get_data, lines 229-242: the records of the answer (the columns the rows
\* of the model carry).
data_records(rows) ==
  [i \in DOMAIN rows |->
     [name |-> rows[i].Restaurant_Name, city |-> rows[i].City,
      cuisines |-> rows[i].Cuisines, rating |-> rows[i].Aggregate_rating,
      cost |-> rows[i].Average_Cost_for_two, price_range |-> rows[i].Price_range]]

\* get_stats, lines 278-287: the count and the number of distinct cities
\* (the averaged rating is not kept).
stats_of(rows) ==
  [total_restaurants |-> Len(rows),
   unique_cities |-> Cardinality({rows[i].City : i \in DOMAIN rows})]

\* ------------------------------------------------------------- the analytics
\* A rating bucket whose lower bound 4.0 is left out.
rating_ranges_above_4_only(df) ==
  [Excellent |-> Len(SelectSeq(df, LAMBDA r : r.Aggregate_rating >= 45)),
   Very_Good |-> Len(SelectSeq(df, LAMBDA r : r.Aggregate_rating > 40
                                               /\ r.Aggregate_rating < 45)),
   Good      |-> Len(SelectSeq(df, LAMBDA r : r.Aggregate_rating >= 35
                                               /\ r.Aggregate_rating < 40)),
   Average   |-> Len(SelectSeq(df, LAMBDA r : r.Aggregate_rating >= 30
                                               /\ r.Aggregate_rating < 35)),
   Poor      |-> Len(SelectSeq(df, LAMBDA r : r.Aggregate_rating < 30))]
\* get_rating_distribution, lines 298-304.
rating_ranges(df) ==
  [Excellent |-> Len(SelectSeq(df, LAMBDA r : r.Aggregate_rating >= 45)),
   Very_Good |-> Len(SelectSeq(df, LAMBDA r : r.Aggregate_rating >= 40
                                               /\ r.Aggregate_rating < 45)),
   Good      |-> Len(SelectSeq(df, LAMBDA r : r.Aggregate_rating >= 35
                                               /\ r.Aggregate_rating < 40)),
   Average   |-> Len(SelectSeq(df, LAMBDA r : r.Aggregate_rating >= 30
                                               /\ r.Aggregate_rating < 35)),
   Poor      |-> Len(SelectSeq(df, LAMBDA r : r.Aggregate_rating < 30))]

\* app.py create_rating_chart, lines 89-95.
chart_rating_ranges(df) ==
  [Excellent |-> Len(SelectSeq(df, LAMBDA r : r.Aggregate_rating >= 45)),
   Very_Good |-> Len(SelectSeq(df, LAMBDA r : r.Aggregate_rating >= 40
                                               /\ r.Aggregate_rating < 45)),
   Good      |-> Len(SelectSeq(df, LAMBDA r : r.Aggregate_rating >= 35
                                               /\ r.Aggregate_rating < 40)),
   Average   |-> Len(SelectSeq(df, LAMBDA r : r.Aggregate_rating >= 30
                                               /\ r.Aggregate_rating < 35)),
   Poor      |-> Len(SelectSeq(df, LAMBDA r : r.Aggregate_rating < 30))]

\* Line 407: filtered_df.loc[filtered_df['Aggregate rating'].idxmax()], the
\* first row holding the largest rating.
top_rated_of(rows) ==
  rows[CHOOSE i \in DOMAIN rows :
         /\ \A j \in DOMAIN rows : rows[j].Aggregate_rating <= rows[i].Aggregate_rating
         /\ \A j \in 1..(i - 1) : rows[j].Aggregate_rating < rows[i].Aggregate_rating]

RECURSIVE SumCost(_)
SumCost(rows) ==
  IF rows = <<>> THEN 0 ELSE Head(rows).Average_Cost_for_two + SumCost(Tail(rows))
InCity(rows, c) == SelectSeq(rows, LAMBDA r : r.City = c)
\* Line 416: among the rows of positive cost, the city of the largest mean
\* cost; groupby orders the cities, idxmax takes the first of the largest.
expensive_city_of(rows) ==
  LET costly == SelectSeq(rows, LAMBDA r : r.Average_Cost_for_two > 0)
      present == {costly[i].City : i \in DOMAIN costly}
      \* mean(c) >= mean(d) and mean(c) > mean(d), by cross-multiplication
      Geq(c, d) == SumCost(InCity(costly, c)) * Len(InCity(costly, d))
                     >= SumCost(InCity(costly, d)) * Len(InCity(costly, c))
      Gt(c, d) == SumCost(InCity(costly, c)) * Len(InCity(costly, d))
                    > SumCost(InCity(costly, d)) * Len(InCity(costly, c))
      Sooner(c, d) == c = "A" /\ d = "B"
  IN  CHOOSE c \in present :
        /\ \A d \in present : Geq(c, d)
        /\ \A d \in present : Sooner(d, c) => Gt(c, d)
\* f"{avg_cost:.0f}": the quotient rounded to the nearest integer, a half to
\* the even one.
format_0f(num, den) ==
  LET q == num \div den
      r == num % den
  IN  IF 2 * r > den THEN q + 1
      ELSE IF 2 * r = den THEN q + (q % 2)
      ELSE q
\* Line 417: the mean cost over every filtered row of that city.
avg_cost_of(rows, c) == format_0f(SumCost(InCity(rows, c)), Len(InCity(rows, c)))

\* Lines 426-427: str(cuisines).split(',') with each piece stripped.
split_strip(s) ==
  CASE s = "c" -> <<"c">>
    [] s = "d" -> <<"d">>
    [] s = "c, d" -> <<"c", "d">>
RECURSIVE all_cuisines_of(_)
all_cuisines_of(rows) ==
  IF rows = <<>> THEN <<>>
  ELSE split_strip(Head(rows).Cuisines) \o all_cuisines_of(Tail(rows))
CountOf(tokens, x) == Len(SelectSeq(tokens, LAMBDA y : y = x))
\* Lines 430-431: value_counts; the cuisines that may come first are those of
\* the largest count (the order among equal counts is the sort's).
popular_cuisines(tokens) ==
  {x \in {tokens[i] : i \in DOMAIN tokens} :
     \A i \in DOMAIN tokens : CountOf(tokens, tokens[i]) <= CountOf(tokens, x)}

\* get_insights, lines 409-438: the list of insights for a non-empty
\* filtered_df, with the cuisine c named as the most popular one.
insights_of(rows, c) ==
  LET top_rated == top_rated_of(rows)
      highlight == << [title |-> "Highest Rated Restaurant",
                       name |-> top_rated.Restaurant_Name,
                       city |-> top_rated.City,
                       value |-> top_rated.Aggregate_rating] >>
      info == IF Len(SelectSeq(rows, LAMBDA r : r.Average_Cost_for_two > 0)) > 0
              THEN << [title |-> "Most Expensive City",
                       name |-> "",
                       city |-> expensive_city_of(rows),
                       value |-> avg_cost_of(rows, expensive_city_of(rows))] >>
              ELSE <<>>
      trend == << [title |-> "Most Popular Cuisine",
                   name |-> c,
                   city |-> "",
                   value |-> CountOf(all_cuisines_of(rows), c)] >>
  IN  highlight \o info \o trend

\* The request an analytics handler is answering: the frame it reads, the
\* query parameters, the filtered rows and the answer.
NoQuery ==
  [pc |-> "none", op |-> "none", df |-> <<>>, name_dtype |-> "object", args |-> NoArgs,
   filtered |-> FilteredTo(<<>>), status |-> 0, error |-> "none",
   body |-> <<>>]

\* ------------------------------------------------- values of the server state
\* restaurant_data = None.
None == 0
Threads == 1..MaxThreads
\* Data frame objects alive at once: one working frame per thread and the one
\* the handle refers to.
ObjIds == 1..(MaxThreads + 1)
FreeObj == [used |-> FALSE, df |-> <<>>, complete |-> FALSE]
NoCsv == [exists |-> FALSE, rows |-> <<>>]
NoCall == [NewCall(<<>>, <<>>) EXCEPT !.pc = "none"]
NoResp == [status |-> 0, body |-> "none", data_loaded |-> FALSE, copied |-> FALSE,
           complete |-> FALSE, count |-> 0]
IdleThread ==
  [op |-> "none", pc |-> "idle", ret |-> "none", success |-> FALSE,
   obj |-> None, call |-> NoCall, resp |-> NoResp]

VARIABLES
  call,     \* the running call of impute_missing_services
  input,    \* the raw rows the call's arguments were made from
  drawn,    \* the draws the call consumed: <<booking draws, delivery draws>>
  process,          \* server.py as a process: "importing", "serving" or "crashed"
  csv,              \* zomato.csv on disk: [exists, rows]
  restaurant_data,  \* the global handle: None or the data frame object it refers to
  heap,             \* the data frame objects: [used, df, complete]
  th,               \* the request threads: [op, pc, ret, success, obj, call, resp]
  query             \* the request of an analytics handler and its answer

impute_vars == <<call, input, drawn>>
server_vars == <<process, csv, restaurant_data, heap, th, query>>
vars == <<call, input, drawn, process, csv, restaurant_data, heap, th, query>>

InitImpute ==
  /\ \E S \in SUBSET Labels :
       /\ Cardinality(S) <= MaxRows
       /\ input \in RawRows(S)
  /\ call = NewCall(CoerceServices(input), original_services_of(input))
  /\ drawn = <<<<>>, <<>>>>
  /\ process = "not_started"
  /\ csv = NoCsv
  /\ restaurant_data = None
  /\ heap = [o \in ObjIds |-> FreeObj]
  /\ th = [t \in Threads |-> IdleThread]
  /\ query = NoQuery

impute_groupby ==
  /\ call.pc = "groupby"
  /\ call' = call_groupby(call)
  /\ UNCHANGED <<input, drawn>>
  /\ UNCHANGED server_vars

impute_select ==
  /\ call.pc = "select"
  /\ call' = call_select(call)
  /\ UNCHANGED <<input, drawn>>
  /\ UNCHANGED server_vars

impute_sample ==
  /\ call.pc = "sample"
  /\ \E d1, d2 \in DrawVectors(Len(call.restaurants_to_impute)) :
       /\ call' = call_sample(call, d1, d2)
       /\ drawn' = <<d1, d2>>
  /\ UNCHANGED input
  /\ UNCHANGED server_vars

impute_write_booking ==
  /\ call.pc = "write_booking"
  /\ call' = call_write_booking(call)
  /\ UNCHANGED <<input, drawn>>
  /\ UNCHANGED server_vars

impute_write_delivery ==
  /\ call.pc = "write_delivery"
  /\ call' = call_write_delivery(call)
  /\ UNCHANGED <<input, drawn>>
  /\ UNCHANGED server_vars

impute_return ==
  /\ call.pc = "return"
  /\ call' = call_return(call)
  /\ UNCHANGED <<input, drawn>>
  /\ UNCHANGED server_vars

NextImpute ==
  \/ impute_groupby
  \/ impute_select
  \/ impute_sample
  \/ impute_write_booking
  \/ impute_write_delivery
  \/ impute_return

SpecImpute == InitImpute /\ [][NextImpute]_vars

\* ------------------------------------- the imputer called outside its contract
\* A table that lacks the City column.
drop_city(rows) ==
  [i \in DOMAIN rows |->
     [idx                 |-> rows[i].idx,
      Has_Table_booking   |-> rows[i].Has_Table_booking,
      Has_Online_delivery |-> rows[i].Has_Online_delivery,
      Is_delivering_now   |-> rows[i].Is_delivering_now]]

\* Original-service frames over the labels M: a row is all missing or not.
MaskRows(M) ==
  {[i \in 1..Cardinality(M) |->
      [idx                 |-> SortedSeq(M)[i],
       Has_Table_booking   |-> IF f[i] THEN NaN ELSE "Yes",
       Has_Online_delivery |-> IF f[i] THEN NaN ELSE "No",
       Is_delivering_now   |-> IF f[i] THEN NaN ELSE "No"]] :
   f \in [1..Cardinality(M) -> BOOLEAN]}

\* Any table, with or without its City column, and any original-service frame,
\* over the same labels or not.
InitContract ==
  /\ \E S \in SUBSET Labels :
       /\ Cardinality(S) <= MaxRows
       /\ \E rows \in RawRows(S), lacks \in BOOLEAN :
            /\ input = IF lacks THEN drop_city(rows) ELSE rows
            /\ \E M \in SUBSET Labels :
                 /\ Cardinality(M) <= MaxRows
                 /\ \E orig \in MaskRows(M) :
                      call = NewCallOn(CoerceServices(input),
                                       IF lacks THEN ImputerColumns \ {"City"}
                                                ELSE ImputerColumns,
                                       orig)
  /\ drawn = <<<<>>, <<>>>>
  /\ process = "not_started"
  /\ csv = NoCsv
  /\ restaurant_data = None
  /\ heap = [o \in ObjIds |-> FreeObj]
  /\ th = [t \in Threads |-> IdleThread]
  /\ query = NoQuery

SpecContract == InitContract /\ [][NextImpute]_vars

\* ============================================================== the server
\* Contents zomato.csv may have.  File1 loads: its first row has no city, and
\* its eligible row, alone in its city, is not at label 0.  In File2 the first
\* row has no restaurant name and is dropped, so the only (eligible) row left
\* carries label 1.
CsvRow(i, name, city, b, d, n) ==
  [idx |-> i, Restaurant_Name |-> name, City |-> city,
   Has_Table_booking |-> b, Has_Online_delivery |-> d, Is_delivering_now |-> n]
File1 == << CsvRow(0, "R0", NaN, "Yes", "No", "No"),
            CsvRow(1, "R1", "B", NaN, NaN, NaN) >>
File2 == << CsvRow(0, NaN, "A", "YES", "Yes", "Yes"),
            CsvRow(1, "R1", "B", NaN, NaN, NaN) >>
CsvFiles == {File1, File2}

\* Lines 91-95: rows without a restaurant name are dropped (labels kept), a
\* missing city becomes 'Unknown'.
dropna_name(rows) == SelectSeq(rows, LAMBDA r : r.Restaurant_Name # NaN)
fill_city(rows) == [i \in DOMAIN rows |-> [rows[i] EXCEPT !.City = fillna(@, "Unknown")]]
cleaned_of(rows) == fill_city(dropna_name(rows))

\* Lines 108-110 (app.py 78-80).  read_csv gives a service column of a file
\* with rows, none of which has text in it, the dtype float64.  When dropna
\* left no row, fillna('No') has nothing to fill and keeps that dtype, and
\* .str on it raises AttributeError.
ServiceColumns == {"Has_Table_booking", "Has_Online_delivery", "Is_delivering_now"}
coercion_raises(rows) ==
  /\ rows # <<>>
  /\ dropna_name(rows) = <<>>
  /\ \E col \in ServiceColumns : \A i \in DOMAIN rows : rows[i][col] = NaN

\* ------------------------------------------------ the two load paths, compared
\* The tables zomato.csv may hold: rows labelled 0..n-1, with or without a
\* restaurant name and a city, with any of the raw service cases.
CsvTables(max) ==
  UNION {
    {[i \in 1..n |->
        CsvRow(i - 1, f[i].name, f[i].city, f[i].svc.Has_Table_booking,
               f[i].svc.Has_Online_delivery, f[i].svc.Is_delivering_now)] :
     f \in [1..n -> [name : {"R", NaN}, city : CityValues, svc : RawServiceCases]]} :
    n \in 0..max}

\* app.py, load_data, lines 66-81: the same cleaning and the same coercion of
\* the service columns as the server's; the frame is returned as it is then.
\* An exception is caught (lines 82-85) and an empty frame returned.
load_data(rows) ==
  IF coercion_raises(rows) THEN <<>> ELSE CoerceServices(fill_city(dropna_name(rows)))

\* server.py, lines 89-115: the call of the imputer that load_and_process_data
\* makes for the rows read from the file; none when the coercion raised
\* (the except clause of line 121 returns False).
server_call(rows) ==
  IF coercion_raises(rows)
  THEN NoCall
  ELSE NewCall(CoerceServices(cleaned_of(rows)), original_services_of(cleaned_of(rows)))

InitLoad ==
  /\ input \in CsvTables(MaxRows)
  /\ call = server_call(input)
  /\ drawn = <<<<>>, <<>>>>
  /\ process = "not_started"
  /\ csv = NoCsv
  /\ restaurant_data = None
  /\ heap = [o \in ObjIds |-> FreeObj]
  /\ th = [t \in Threads |-> IdleThread]
  /\ query = NoQuery

SpecLoad == InitLoad /\ [][NextImpute]_vars

\* The smallest object id not in use.
NewObj == CHOOSE o \in ObjIds : ~heap[o].used /\ \A q \in ObjIds : q < o => heap[q].used
\* The heap once object o is no longer referenced (None: nothing to drop).
Dropped(h, o) == IF o = None THEN h ELSE [h EXCEPT ![o] = FreeObj]

\* The except clause of load_and_process_data (lines 121-126) logs and returns
\* False: the handle is left as it is.
handle_after_failure_published(handle, obj) == obj
handle_after_failure(handle, obj) == handle

\* A failed load that reports success.
FailedLoad_returning_true(me) ==
  [me EXCEPT !.success = TRUE, !.pc = me.ret, !.obj = None, !.call = NoCall]
\* The thread after load_and_process_data has returned False.
FailedLoad(me) ==
  [me EXCEPT !.success = FALSE, !.pc = me.ret, !.obj = None, !.call = NoCall]

\* The call of the imputer that thread t is in, with the frame it works on.
CallOf(t) == [th[t].call EXCEPT !.df = heap[th[t].obj].df]

\* The effect on the server of one step of the imputer call of thread t that
\* leads to the call state c2.
ImputeStep(t, c2) ==
  IF c2.raised # "none"
  THEN /\ restaurant_data' = handle_after_failure(restaurant_data, th[t].obj)
       /\ heap' = IF restaurant_data' = th[t].obj THEN heap ELSE Dropped(heap, th[t].obj)
       /\ th' = [th EXCEPT ![t] = FailedLoad(th[t])]
  ELSE /\ heap' = [heap EXCEPT ![th[t].obj].df = c2.df,
                               ![th[t].obj].complete = (c2.pc = "done")]
       /\ th' = [th EXCEPT ![t].call = [c2 EXCEPT !.df = <<>>],
                           ![t].pc = IF c2.pc = "done" THEN "load_assign" ELSE "impute"]
       /\ UNCHANGED restaurant_data

\* Line 40, at import: load_data_on_startup() runs before load_and_process_data
\* is defined (line 56).  Without the file it returns False at line 29 and the
\* module goes on to serve; with the file it calls the undefined name and the
\* import dies with NameError.
module_import ==
  /\ process = "importing"
  /\ process' = IF csv.exists THEN "crashed" ELSE "serving"
  /\ UNCHANGED <<csv, restaurant_data, heap, th>>
  /\ UNCHANGED <<impute_vars, query>>

\* The environment writes or replaces zomato.csv.
env_write_csv(f) ==
  /\ csv # [exists |-> TRUE, rows |-> f]
  /\ csv' = [exists |-> TRUE, rows |-> f]
  /\ UNCHANGED <<process, restaurant_data, heap, th>>
  /\ UNCHANGED <<impute_vars, query>>

\* The environment removes zomato.csv.
env_remove_csv ==
  /\ csv.exists
  /\ csv' = NoCsv
  /\ UNCHANGED <<process, restaurant_data, heap, th>>
  /\ UNCHANGED <<impute_vars, query>>

\* Threads are interchangeable: a new request is given to the first idle one.
FirstIdle(t) ==
  /\ th[t].pc = "idle"
  /\ \A q \in Threads : q < t => th[q].pc # "idle"

\* /api/reload-data arrives; reload_data, line 171: restaurant_data = None,
\* and load_and_process_data() is called (line 174).
reload_reset(t) ==
  /\ process = "serving"
  /\ FirstIdle(t)
  /\ restaurant_data' = None
  /\ heap' = Dropped(heap, restaurant_data)
  /\ th' = [th EXCEPT ![t] = [IdleThread EXCEPT !.op = "reload", !.pc = "load_read",
                                                !.ret = "reload_status"]]
  /\ UNCHANGED <<process, csv>>
  /\ UNCHANGED <<impute_vars, query>>

\* /api/data arrives; ensure_data_loaded, line 46: with the handle set the
\* handler goes on, without it load_data_on_startup() is called (line 48).
ensure_check(t) ==
  /\ process = "serving"
  /\ FirstIdle(t)
  /\ th' = [th EXCEPT ![t] = [IdleThread EXCEPT
                                !.op = "data",
                                !.ret = "ensure_recheck",
                                !.pc = IF restaurant_data = None THEN "load_read"
                                       ELSE "data_copy"]]
  /\ UNCHANGED <<process, csv, restaurant_data, heap>>
  /\ UNCHANGED <<impute_vars, query>>

\* A load that assigns the handle before the imputer has run.
load_read_publishing(t) ==
  /\ th[t].pc = "load_read"
  /\ IF csv.exists /\ ~coercion_raises(csv.rows)
     THEN LET o == NewObj
              cleaned == cleaned_of(csv.rows)
              c == call_select(call_groupby(
                     NewCall(CoerceServices(cleaned), original_services_of(cleaned))))
          IN  \E d1, d2 \in DrawVectors(Len(c.restaurants_to_impute)) :
                /\ heap' = [Dropped(heap, restaurant_data) EXCEPT
                              ![o] = [used |-> TRUE, df |-> c.df, complete |-> FALSE]]
                /\ restaurant_data' = o
                /\ th' = [th EXCEPT ![t].pc = "impute", ![t].obj = o,
                                    ![t].call = [call_sample(c, d1, d2) EXCEPT !.df = <<>>]]
     ELSE /\ th' = [th EXCEPT ![t] = FailedLoad(th[t])]
          /\ UNCHANGED <<heap, restaurant_data>>
  /\ UNCHANGED <<process, csv>>
  /\ UNCHANGED <<impute_vars, query>>

\* The file accesses and the local work of a load: load_data_on_startup lines
\* 27-31 (lazy load), load_and_process_data lines 63-115 and the imputer's
\* lines 21-45.  Without the file the load returns False.  With it the rows are
\* read and cleaned into a new frame, the original service columns are kept,
\* the flags are coerced, and the imputer computes the probabilities and draws
\* its samples; nothing is written to the frame yet.
load_read(t) ==
  /\ th[t].pc = "load_read"
  /\ IF csv.exists /\ ~coercion_raises(csv.rows)
     THEN LET o == NewObj
              cleaned == cleaned_of(csv.rows)
              c == call_select(call_groupby(
                     NewCall(CoerceServices(cleaned), original_services_of(cleaned))))
          IN  \E d1, d2 \in DrawVectors(Len(c.restaurants_to_impute)) :
                /\ heap' = [heap EXCEPT ![o] = [used |-> TRUE, df |-> c.df,
                                                complete |-> FALSE]]
                /\ th' = [th EXCEPT ![t].pc = "impute", ![t].obj = o,
                                    ![t].call = [call_sample(c, d1, d2) EXCEPT !.df = <<>>]]
     ELSE /\ th' = [th EXCEPT ![t] = FailedLoad(th[t])]
          /\ UNCHANGED heap
  /\ UNCHANGED <<process, csv, restaurant_data>>
  /\ UNCHANGED <<impute_vars, query>>

\* The imputer inside the load, line 48.
srv_impute_write_booking(t) ==
  /\ th[t].pc = "impute"
  /\ th[t].call.pc = "write_booking"
  /\ ImputeStep(t, call_write_booking(CallOf(t)))
  /\ UNCHANGED <<process, csv>>
  /\ UNCHANGED <<impute_vars, query>>

\* The imputer inside the load, lines 49-55: the second assignment, and the
\* return of the frame.
srv_impute_write_delivery(t) ==
  /\ th[t].pc = "impute"
  /\ th[t].call.pc = "write_delivery"
  /\ LET c2 == call_write_delivery(CallOf(t))
     IN  ImputeStep(t, IF c2.raised = "none" THEN call_return(c2) ELSE c2)
  /\ UNCHANGED <<process, csv>>
  /\ UNCHANGED <<impute_vars, query>>

\* load_and_process_data, lines 117-119: restaurant_data = df; return True.
load_assign(t) ==
  /\ th[t].pc = "load_assign"
  /\ restaurant_data' = th[t].obj
  /\ heap' = IF restaurant_data = th[t].obj THEN heap ELSE Dropped(heap, restaurant_data)
  /\ th' = [th EXCEPT ![t].pc = th[t].ret, ![t].success = TRUE,
                      ![t].obj = None, ![t].call = NoCall]
  /\ UNCHANGED <<process, csv>>
  /\ UNCHANGED <<impute_vars, query>>

\* reload_data, lines 176-179: 'data_loaded' is the first read of the handle
\* after the load returned.
reload_status(t) ==
  /\ th[t].pc = "reload_status"
  /\ th' = [th EXCEPT ![t].pc = "reload_count",
                      ![t].resp = [NoResp EXCEPT
                                     !.data_loaded = (restaurant_data # None)]]
  /\ UNCHANGED <<process, csv, restaurant_data, heap>>
  /\ UNCHANGED <<impute_vars, query>>

\* reload_data, line 182, the condition of the conditional expression: the
\* second read of the handle; on None the count is 0 and the answer is sent,
\* with 200 or 500 by the result of the load (lines 185-188).
reload_count(t) ==
  /\ th[t].pc = "reload_count"
  /\ th' = IF restaurant_data = None
           THEN [th EXCEPT ![t].pc = "respond",
                           ![t].resp = [@ EXCEPT
                                          !.status = IF th[t].success THEN 200 ELSE 500,
                                          !.body = "status",
                                          !.count = 0]]
           ELSE [th EXCEPT ![t].pc = "reload_len"]
  /\ UNCHANGED <<process, csv, restaurant_data, heap>>
  /\ UNCHANGED <<impute_vars, query>>

\* reload_data, line 182, len(restaurant_data): the third read of the handle;
\* len(None) raises TypeError and Flask answers 500.
reload_len(t) ==
  /\ th[t].pc = "reload_len"
  /\ th' = IF restaurant_data = None
           THEN [th EXCEPT ![t].pc = "respond",
                           ![t].resp = [NoResp EXCEPT !.status = 500,
                                                      !.body = "TypeError"]]
           ELSE [th EXCEPT ![t].pc = "respond",
                           ![t].resp = [@ EXCEPT
                                          !.status = IF th[t].success THEN 200 ELSE 500,
                                          !.body = "status",
                                          !.count = Len(heap[restaurant_data].df)]]
  /\ UNCHANGED <<process, csv, restaurant_data, heap>>
  /\ UNCHANGED <<impute_vars, query>>

\* ensure_data_loaded, lines 50-54, and the 500 of the handler (lines 198-199).
ensure_recheck(t) ==
  /\ th[t].pc = "ensure_recheck"
  /\ th' = IF restaurant_data = None
           THEN [th EXCEPT ![t].pc = "respond",
                           ![t].resp = [NoResp EXCEPT !.status = 500,
                                                      !.body = "Data not loaded"]]
           ELSE [th EXCEPT ![t].pc = "data_copy"]
  /\ UNCHANGED <<process, csv, restaurant_data, heap>>
  /\ UNCHANGED <<impute_vars, query>>

\* A handler that filters the loaded frame itself instead of a copy of it.
data_copy_in_place(t) ==
  /\ th[t].pc = "data_copy"
  /\ restaurant_data # None
  /\ th' = [th EXCEPT ![t].pc = "respond",
                      ![t].resp = [NoResp EXCEPT !.status = 200, !.body = "rows"]]
  /\ heap' = [heap EXCEPT ![restaurant_data].df = <<>>]
  /\ UNCHANGED <<process, csv, restaurant_data>>
  /\ UNCHANGED <<impute_vars, query>>
\* get_data, lines 208-244: restaurant_data.copy() and the answer made from
\* the copy; on None the attribute access raises and Flask answers 500.
data_copy(t) ==
  /\ th[t].pc = "data_copy"
  /\ th' = IF restaurant_data = None
           THEN [th EXCEPT ![t].pc = "respond",
                           ![t].resp = [NoResp EXCEPT !.status = 500,
                                                      !.body = "AttributeError"]]
           ELSE [th EXCEPT ![t].pc = "respond",
                           ![t].resp = [NoResp EXCEPT
                                          !.status = 200,
                                          !.body = "rows",
                                          !.copied = TRUE,
                                          !.complete = heap[restaurant_data].complete,
                                          !.count = Len(heap[restaurant_data].df)]]
  /\ UNCHANGED <<process, csv, restaurant_data, heap>>
  /\ UNCHANGED <<impute_vars, query>>

\* /api/health arrives; health_check, line 155: 'data_loaded' is the first read
\* of the handle.  Nothing is loaded and nothing is assigned.
health_check(t) ==
  /\ process = "serving"
  /\ FirstIdle(t)
  /\ th' = [th EXCEPT ![t] = [IdleThread EXCEPT
                                !.op = "health",
                                !.pc = "health_count",
                                !.resp = [NoResp EXCEPT
                                            !.data_loaded = (restaurant_data # None)]]]
  /\ UNCHANGED <<process, csv, restaurant_data, heap>>
  /\ UNCHANGED <<impute_vars, query>>

\* health_check, line 158, the condition of the conditional expression: the
\* second read of the handle; on None the count is 0 and the answer is sent.
health_count(t) ==
  /\ th[t].pc = "health_count"
  /\ th' = IF restaurant_data = None
           THEN [th EXCEPT ![t].pc = "respond",
                           ![t].resp = [@ EXCEPT !.status = 200, !.body = "status",
                                                 !.count = 0]]
           ELSE [th EXCEPT ![t].pc = "health_len"]
  /\ UNCHANGED <<process, csv, restaurant_data, heap>>
  /\ UNCHANGED <<impute_vars, query>>

\* health_check, line 158, len(restaurant_data): the third read of the handle;
\* len(None) raises TypeError and Flask answers 500.
health_len(t) ==
  /\ th[t].pc = "health_len"
  /\ th' = IF restaurant_data = None
           THEN [th EXCEPT ![t].pc = "respond",
                           ![t].resp = [NoResp EXCEPT !.status = 500,
                                                      !.body = "TypeError"]]
           ELSE [th EXCEPT ![t].pc = "respond",
                           ![t].resp = [@ EXCEPT !.status = 200, !.body = "status",
                                                 !.count = Len(heap[restaurant_data].df)]]
  /\ UNCHANGED <<process, csv, restaurant_data, heap>>
  /\ UNCHANGED <<impute_vars, query>>

\* The response is sent and the thread is free again.
finish(t) ==
  /\ th[t].pc = "respond"
  /\ th' = [th EXCEPT ![t] = IdleThread]
  /\ UNCHANGED <<process, csv, restaurant_data, heap>>
  /\ UNCHANGED <<impute_vars, query>>

Init ==
  /\ process = "importing"
  /\ csv \in {NoCsv} \cup {[exists |-> TRUE, rows |-> f] : f \in CsvFiles}
  /\ restaurant_data = None
  /\ heap = [o \in ObjIds |-> FreeObj]
  /\ th = [t \in Threads |-> IdleThread]
  /\ call = NoCall
  /\ input = <<>>
  /\ drawn = <<<<>>, <<>>>>
  /\ query = NoQuery

Next ==
  \/ module_import
  \/ \E f \in CsvFiles : env_write_csv(f)
  \/ env_remove_csv
  \/ \E t \in Threads : reload_reset(t)
  \/ \E t \in Threads : ensure_check(t)
  \/ \E t \in Threads : load_read(t)
  \/ \E t \in Threads : srv_impute_write_booking(t)
  \/ \E t \in Threads : srv_impute_write_delivery(t)
  \/ \E t \in Threads : load_assign(t)
  \/ \E t \in Threads : reload_status(t)
  \/ \E t \in Threads : reload_count(t)
  \/ \E t \in Threads : reload_len(t)
  \/ \E t \in Threads : ensure_recheck(t)
  \/ \E t \in Threads : data_copy(t)
  \/ \E t \in Threads : health_check(t)
  \/ \E t \in Threads : health_count(t)
  \/ \E t \in Threads : health_len(t)
  \/ \E t \in Threads : finish(t)

Spec == Init /\ [][Next]_vars

\* ------------------------------------------- requests handled one at a time
\* No request is being handled.
NoRequestInProgress == \A t \in Threads : th[t].pc = "idle"
seq_reload(t) == NoRequestInProgress /\ reload_reset(t)
seq_data(t) == NoRequestInProgress /\ ensure_check(t)
seq_health(t) == NoRequestInProgress /\ health_check(t)

\* A file whose second row is imputed with probability 1/2: both rows fall in
\* the city 'Unknown', one of them has the booking flag.
File3 == << CsvRow(0, "R0", NaN, "Yes", "No", "No"),
            CsvRow(1, "R1", NaN, NaN, NaN, NaN) >>
SeqCsvFiles == CsvFiles \cup {File3}

InitSequential ==
  /\ process = "importing"
  /\ csv \in {NoCsv} \cup {[exists |-> TRUE, rows |-> f] : f \in SeqCsvFiles}
  /\ restaurant_data = None
  /\ heap = [o \in ObjIds |-> FreeObj]
  /\ th = [t \in Threads |-> IdleThread]
  /\ call = NoCall
  /\ input = <<>>
  /\ drawn = <<<<>>, <<>>>>
  /\ query = NoQuery

\* The server when a request arrives only after the one before it was answered.
NextSequential ==
  \/ module_import
  \/ \E f \in SeqCsvFiles : env_write_csv(f)
  \/ env_remove_csv
  \/ \E t \in Threads : seq_reload(t)
  \/ \E t \in Threads : seq_data(t)
  \/ \E t \in Threads : seq_health(t)
  \/ \E t \in Threads : load_read(t)
  \/ \E t \in Threads : srv_impute_write_booking(t)
  \/ \E t \in Threads : srv_impute_write_delivery(t)
  \/ \E t \in Threads : load_assign(t)
  \/ \E t \in Threads : reload_status(t)
  \/ \E t \in Threads : reload_count(t)
  \/ \E t \in Threads : reload_len(t)
  \/ \E t \in Threads : ensure_recheck(t)
  \/ \E t \in Threads : data_copy(t)
  \/ \E t \in Threads : health_count(t)
  \/ \E t \in Threads : health_len(t)
  \/ \E t \in Threads : finish(t)

SpecSequential == InitSequential /\ [][NextSequential]_vars

\* ------------------------------------------------ read requests only
\* The server started without the file, File3 put in place later, taking
\* read requests (data and health) from several threads and no reload.
InitReads ==
  /\ process = "importing"
  /\ csv = NoCsv
  /\ restaurant_data = None
  /\ heap = [o \in ObjIds |-> FreeObj]
  /\ th = [t \in Threads |-> IdleThread]
  /\ call = NoCall
  /\ input = <<>>
  /\ drawn = <<<<>>, <<>>>>
  /\ query = NoQuery

NextReads ==
  \/ module_import
  \/ env_write_csv(File3)
  \/ \E t \in Threads : ensure_check(t)
  \/ \E t \in Threads : health_check(t)
  \/ \E t \in Threads : load_read(t)
  \/ \E t \in Threads : srv_impute_write_booking(t)
  \/ \E t \in Threads : srv_impute_write_delivery(t)
  \/ \E t \in Threads : load_assign(t)
  \/ \E t \in Threads : ensure_recheck(t)
  \/ \E t \in Threads : data_copy(t)
  \/ \E t \in Threads : health_count(t)
  \/ \E t \in Threads : health_len(t)
  \/ \E t \in Threads : finish(t)

SpecReads == InitReads /\ [][NextReads]_vars

\* ------------------------------------------- the handlers that filter and count
\* The frames of the filter comparison: two cities, the ratings on either
\* side of 4.0, and two menus (price range, name, cuisines).
FilterKinds == [City : Cities, Aggregate_rating : {39, 40}, menu : {1, 2}]
FilterRow(i, k) ==
  [idx |-> i,
   Restaurant_Name |-> IF k.menu = 1 THEN "Ab" ELSE "c",
   City |-> k.City,
   Cuisines |-> IF k.menu = 1 THEN "c" ELSE "d",
   Aggregate_rating |-> k.Aggregate_rating,
   Average_Cost_for_two |-> 500,
   Price_range |-> k.menu]
\* The frames of at most max rows, labelled 0, 1, ...
FilterFrames(max) ==
  UNION {{[i \in 1..n |-> FilterRow(i - 1, f[i])] : f \in [1..n -> FilterKinds]} :
         n \in 0..max}
\* The query strings: a parameter absent, 'all', a value some row has, a value
\* no row has ('b': the city filter is case-sensitive), a non-numeric number;
\* a search text with a capital and one with the regex wildcard.
FilterArgs ==
  [city : {NoArg, "all", "A", "b"},
   price_range : {NoArg, "all", "1", "abc"},
   min_rating : {NoArg, "4.0", "abc"},
   search : {"", "B", "."}]

\* The frames of the analytics: the ratings at and between the bucket bounds,
\* a cost of zero and two positive costs.
AnalyticsKinds ==
  [City : Cities, Aggregate_rating : {29, 30, 35, 40, 45},
   Average_Cost_for_two : {0, 300, 500}]
AnalyticsRow(i, k) ==
  [idx |-> i,
   Restaurant_Name |-> "Ab",
   City |-> k.City,
   Cuisines |-> IF k.City = "A" THEN "c" ELSE "c, d",
   Aggregate_rating |-> k.Aggregate_rating,
   Average_Cost_for_two |-> k.Average_Cost_for_two,
   Price_range |-> 1]
AnalyticsFrames(max) ==
  UNION {{[i \in 1..n |-> AnalyticsRow(i - 1, f[i])] : f \in [1..n -> AnalyticsKinds]} :
         n \in 0..max}
AnalyticsArgs ==
  [city : {NoArg, "A"}, price_range : {NoArg}, min_rating : {NoArg, "4.0"},
   search : {""}]

\* A request to a server whose handle refers to a loaded frame with the rows
\* df, carrying the query parameters a.
Request(df, name_dtype, a) ==
  [NoQuery EXCEPT !.pc = "request", !.df = df, !.name_dtype = name_dtype, !.args = a]
Answer(op, f, status, error, body) ==
  [query EXCEPT !.pc = "answered", !.op = op, !.filtered = f, !.status = status,
                !.error = error, !.body = body]
LoadedHeap == [o \in ObjIds |-> IF o = 1 THEN [FreeObj EXCEPT !.used = TRUE, !.complete = TRUE]
                                ELSE FreeObj]

InitFilter ==
  /\ \E df \in FilterFrames(MaxRows), a \in FilterArgs :
       \E name_dtype \in NameDtypes(df) : query = Request(df, name_dtype, a)
  /\ process = "serving"
  /\ csv = NoCsv
  /\ restaurant_data = 1
  /\ heap = LoadedHeap
  /\ th = [t \in Threads |-> IdleThread]
  /\ call = NoCall
  /\ input = <<>>
  /\ drawn = <<<<>>, <<>>>>

InitAnalytics ==
  /\ \E df \in AnalyticsFrames(MaxRows), a \in AnalyticsArgs :
       \E name_dtype \in NameDtypes(df) : query = Request(df, name_dtype, a)
  /\ process = "serving"
  /\ csv = NoCsv
  /\ restaurant_data = 1
  /\ heap = LoadedHeap
  /\ th = [t \in Threads |-> IdleThread]
  /\ call = NoCall
  /\ input = <<>>
  /\ drawn = <<<<>>, <<>>>>

\* /api/data, lines 195-244; an exception of the filter is Flask's 500.
get_data ==
  /\ query.pc = "request"
  /\ LET f == get_data_filtered_df(query.df, query.name_dtype, query.args)
     IN  query' = IF f.raised = "none"
                  THEN Answer("data", f, 200, "none", data_records(f.rows))
                  ELSE Answer("data", f, 500, f.raised, <<>>)
  /\ UNCHANGED <<call, input, drawn, process, csv, restaurant_data, heap, th>>

\* /api/stats, lines 246-287.
get_stats ==
  /\ query.pc = "request"
  /\ LET f == get_stats_filtered_df(query.df, query.name_dtype, query.args)
     IN  query' = IF f.raised = "none"
                  THEN Answer("stats", f, 200, "none", stats_of(f.rows))
                  ELSE Answer("stats", f, 500, f.raised, <<>>)
  /\ UNCHANGED <<call, input, drawn, process, csv, restaurant_data, heap, th>>

\* /api/analytics/rating-distribution, lines 289-306.
get_rating_distribution ==
  /\ query.pc = "request"
  /\ LET f == apply_filters(query.df, query.name_dtype, query.args)
     IN  query' = IF f.raised = "none"
                  THEN Answer("rating", f, 200, "none", rating_ranges(f.rows))
                  ELSE Answer("rating", f, 500, f.raised, <<>>)
  /\ UNCHANGED <<call, input, drawn, process, csv, restaurant_data, heap, th>>

\* app.py create_rating_chart, lines 87-95, on the frame it is given.
create_rating_chart ==
  /\ query.pc = "request"
  /\ query' = Answer("chart", FilteredTo(query.df), 200, "none",
                     chart_rating_ranges(query.df))
  /\ UNCHANGED <<call, input, drawn, process, csv, restaurant_data, heap, th>>

\* /api/insights, lines 396-438.  idxmax of an empty column (line 407) raises
\* ValueError, which is Flask's 500.
get_insights ==
  /\ query.pc = "request"
  /\ LET f == apply_filters(query.df, query.name_dtype, query.args)
     IN  IF f.raised # "none"
         THEN query' = Answer("insights", f, 500, f.raised, <<>>)
         ELSE IF f.rows = <<>>
         THEN query' = Answer("insights", f, 500, "ValueError", <<>>)
         ELSE \E c \in popular_cuisines(all_cuisines_of(f.rows)) :
                query' = Answer("insights", f, 200, "none", insights_of(f.rows, c))
  /\ UNCHANGED <<call, input, drawn, process, csv, restaurant_data, heap, th>>

NextFilter ==
  \/ get_data
  \/ get_stats
  \/ get_rating_distribution

SpecFilter == InitFilter /\ [][NextFilter]_vars

NextAnalytics ==
  \/ get_rating_distribution
  \/ create_rating_chart
  \/ get_insights

SpecAnalytics == InitAnalytics /\ [][NextAnalytics]_vars

\* =================================================== properties of the imputer
\* Stated over the raw input, independently of the operators above.
IsYes(v) == v \in {"Yes", "YES", "yes"}
\* Row i of the input had all three service fields absent.
Eligible(i) ==
  /\ input[i].Has_Table_booking = NaN
  /\ input[i].Has_Online_delivery = NaN
  /\ input[i].Is_delivering_now = NaN
EligibleRows == {i \in DOMAIN input : Eligible(i)}
\* The j-th eligible row, in table order.
EligiblePos(j) == SortedSeq(EligibleRows)[j]
\* The table as it was handed to the imputer.
Before == CoerceServices(input)
Returned == call.pc = "done" /\ call.raised = "none"
\* The call has got past the selection and the fill of the probabilities.
Selected == call.pc \in {"sample", "write_booking", "write_delivery", "return"} \/ Returned
\* The call has got past the sampling.
Sampled == call.pc \in {"write_booking", "write_delivery", "return"} \/ Returned
SameFraction(p, q) == p.den > 0 /\ q.den > 0 /\ p.num * q.den = q.num * p.den
InUnitInterval(p) == p.den > 0 /\ 0 <= p.num /\ p.num <= p.den
\* The imputer's precondition on the city column: no missing city.
CityPresent == \A i \in DOMAIN input : input[i].City # NaN

\* C1: every row that had at least one original service field present keeps its
\* has_table_booking and has_online_delivery values through the imputation.
C1_EligibilityPrecision ==
  CityPresent =>
    \A i \in DOMAIN input :
      ~Eligible(i) =>
        /\ call.df[i].Has_Table_booking = Before[i].Has_Table_booking
        /\ call.df[i].Has_Online_delivery = Before[i].Has_Online_delivery

\* C2: after the call every eligible row holds, at its own index, booking =
\* (its booking draw < the booking probability of its city) and delivery =
\* (its delivery draw < the delivery probability of its city).
C2_SamplingWriteBack ==
  Returned /\ CityPresent =>
    \A j \in 1..Cardinality(EligibleRows) :
      LET i == EligiblePos(j)
          r == call.restaurants_to_impute[j]
      IN  /\ call.df[i].idx = input[i].idx
          /\ call.df[i].Has_Table_booking = DrawLess(drawn[1][j], r.prob_booking)
          /\ call.df[i].Has_Online_delivery = DrawLess(drawn[2][j], r.prob_delivery)

\* C3: the table keeps its rows and their index labels, and no column other
\* than the two service flags ever differs from the input.
C3_RowColumnPreservation ==
  /\ IndexSeq(call.df) = IndexSeq(input)
  /\ \A i \in DOMAIN input :
       /\ call.df[i].City = input[i].City
       /\ call.df[i].Is_delivering_now = IsYes(input[i].Is_delivering_now)
C3_Witness ==
  /\ Returned
  /\ \E i \in DOMAIN input : call.df[i].Has_Table_booking # Before[i].Has_Table_booking
  /\ \E i \in DOMAIN input : input[i].Is_delivering_now = "Yes"

\* C4: a city's probability is the mean of the flag over all rows of the city,
\* eligible rows counting as false, the global probability the same mean over
\* the whole table, and both are settled before any sampled value is written.
MeanYes(P, col) ==
  [num |-> Cardinality({i \in P : ~Eligible(i) /\ IsYes(input[i][col])}),
   den |-> Cardinality(P)]
RowsOfCity(c) == {i \in DOMAIN input : input[i].City = c}
C4_CityProbabilityDefinition ==
  /\ call.pc # "groupby" =>
       \A c \in Cities :
         RowsOfCity(c) # {} =>
           /\ c \in DOMAIN call.city_probabilities
           /\ call.city_probabilities[c].prob_booking
                = MeanYes(RowsOfCity(c), "Has_Table_booking")
           /\ call.city_probabilities[c].prob_delivery
                = MeanYes(RowsOfCity(c), "Has_Online_delivery")
  /\ Selected =>
       /\ call.global_prob_booking = MeanYes(DOMAIN input, "Has_Table_booking")
       /\ call.global_prob_delivery = MeanYes(DOMAIN input, "Has_Online_delivery")
  /\ call.df # Before => Selected
C4_Witness ==
  /\ Returned
  /\ call.df # Before
  /\ \E c \in Cities :
       /\ \E i \in RowsOfCity(c) : Eligible(i)
       /\ \E i \in RowsOfCity(c) : IsYes(input[i].Has_Table_booking)

\* C5: an eligible row that is the only row of its city is sampled with the
\* global probability, not with a probability of its city.
OnlyRowOfCity(i) == input[i].City # NaN /\ RowsOfCity(input[i].City) = {i}
C5_SingletonCityUsesGlobal ==
  Selected /\ CityPresent =>
    \A j \in 1..Cardinality(EligibleRows) :
      OnlyRowOfCity(EligiblePos(j)) =>
        /\ SameFraction(call.restaurants_to_impute[j].prob_booking,
                        call.global_prob_booking)
        /\ SameFraction(call.restaurants_to_impute[j].prob_delivery,
                        call.global_prob_delivery)

\* C6: where the city of an eligible row has no defined probability for an
\* attribute, the probability used for that attribute is the global mean,
\* each attribute on its own.
NoCityProb(c, col) ==
  \/ c \notin DOMAIN call.city_probabilities
  \/ IsNaNProb(call.city_probabilities[c][col])
C6_FallbackCorrectness ==
  Selected =>
    \A j \in 1..Cardinality(EligibleRows) :
      LET c == input[EligiblePos(j)].City
          r == call.restaurants_to_impute[j]
      IN  /\ NoCityProb(c, "prob_booking") =>
               r.prob_booking = MeanYes(DOMAIN input, "Has_Table_booking")
          /\ NoCityProb(c, "prob_delivery") =>
               r.prob_delivery = MeanYes(DOMAIN input, "Has_Online_delivery")
C6_Witness ==
  /\ Sampled
  /\ \E j \in 1..Cardinality(EligibleRows) :
       /\ NoCityProb(input[EligiblePos(j)].City, "prob_booking")
       /\ call.restaurants_to_impute[j].prob_booking.num > 0
       /\ call.imputed_booking[j - 1]

\* C7: with no eligible row (the empty table included) the call raises nothing
\* and the table is at every step, and on return, the input table.
C7_NoEligibleRowsIdentity ==
  EligibleRows = {} =>
    /\ call.raised = "none"
    /\ call.df = Before
    /\ call.pc = "done" => call.df = Before /\ IndexSeq(call.df) = IndexSeq(input)
C7_Witness ==
  /\ Returned
  /\ EligibleRows = {}
  /\ \E i \in DOMAIN input : input[i].Has_Table_booking = NaN
  /\ \E i \in DOMAIN input : IsYes(input[i].Has_Table_booking)

\* C8: every city probability, every global probability and every probability
\* a row is sampled with lies in [0, 1]; only the empty table has an undefined
\* global mean, and sampling with it gives what probability 0 gives.
C8_ProbabilityBounds ==
  /\ \A c \in DOMAIN call.city_probabilities :
       /\ InUnitInterval(call.city_probabilities[c].prob_booking)
       /\ InUnitInterval(call.city_probabilities[c].prob_delivery)
  /\ Selected =>
       /\ \A j \in DOMAIN call.restaurants_to_impute :
            /\ InUnitInterval(call.restaurants_to_impute[j].prob_booking)
            /\ InUnitInterval(call.restaurants_to_impute[j].prob_delivery)
       /\ IF Len(input) = 0
          THEN /\ IsNaNProb(call.global_prob_booking)
               /\ IsNaNProb(call.global_prob_delivery)
               /\ \A d \in Draws :
                    DrawLess(d, call.global_prob_booking) = DrawLess(d, [num |-> 0, den |-> 1])
               /\ \A l \in DOMAIN call.imputed_booking : ~call.imputed_booking[l]
               /\ \A l \in DOMAIN call.imputed_delivery : ~call.imputed_delivery[l]
          ELSE /\ InUnitInterval(call.global_prob_booking)
               /\ InUnitInterval(call.global_prob_delivery)
C8_Witness ==
  /\ Sampled
  /\ \E j \in DOMAIN call.restaurants_to_impute :
       LET p == call.restaurants_to_impute[j].prob_booking
       IN  0 < p.num /\ p.num < p.den

\* ==================================================== properties of the server
\* C9 as stated: a reload never leaves readers without the dataset they had;
\* once the handle is set it stays set.
C9_HandleStaysSet == [][restaurant_data # None => restaurant_data' # None]_vars

\* C9 amended: the handle is only ever assigned a frame on which cleaning and
\* imputation are already complete, the frame it refers to is never changed in
\* place, and it is unset only by the first step of a reload.
C9_ReloadSwapsCompleteDataset ==
  [][ /\ (restaurant_data' # restaurant_data /\ restaurant_data' # None) =>
           /\ heap[restaurant_data'].complete
           /\ heap'[restaurant_data'] = heap[restaurant_data']
      /\ (restaurant_data # None /\ restaurant_data' = restaurant_data) =>
           heap'[restaurant_data] = heap[restaurant_data]
      /\ (restaurant_data # None /\ restaurant_data' = None) =>
           \E t \in Threads : th[t].pc = "idle" /\ th'[t].op = "reload"
    ]_vars
\* A reload has built its new dataset and not yet assigned it, the handle is
\* unset, and another thread still holds its answer made from the dataset
\* that was loaded before.
C9_Witness ==
  \E t, q \in Threads :
    /\ th[t].op = "reload"
    /\ th[t].pc = "load_assign"
    /\ heap[th[t].obj].complete
    /\ restaurant_data = None
    /\ th[q].pc = "respond"
    /\ th[q].resp.copied

\* C10: a frame reachable through the handle, and every copy a reader took
\* through it, has had the imputation pass run to completion; the frame a
\* load is working on is not the one the handle refers to.
C10_NoPartiallyImputedObservation ==
  /\ restaurant_data # None =>
       /\ heap[restaurant_data].used
       /\ heap[restaurant_data].complete
  /\ \A t \in Threads : th[t].resp.copied => th[t].resp.complete
  /\ \A t \in Threads : th[t].obj # None => th[t].obj # restaurant_data
\* A reader holds a copy while another thread is between the two assignments
\* of its imputation pass, having already changed a flag of its working frame.
C10_Witness ==
  \E t, q \in Threads :
    /\ th[t].pc = "respond"
    /\ th[t].resp.copied
    /\ th[q].pc = "impute"
    /\ th[q].call.pc = "write_delivery"
    /\ \E i \in DOMAIN heap[th[q].obj].df :
         ~heap[th[q].obj].df[i].Has_Table_booking
    /\ restaurant_data # None

\* ===================================== properties of the imputer's input contract
\* The table lacks the City column.
LacksCity == ~HasColumn(call, "City")
\* The table and the original-service frame have the same row indices.
SameIndex == IndexSeq(call.original_services_df) = IndexSeq(input)

\* C11: a call whose table lacks the City column, or whose table and original
\* mask do not share identical row indices, ends by raising an error and
\* returns no table.
C11_FailFastOnPreconditionViolation ==
  (call.pc = "done" /\ (LacksCity \/ ~SameIndex)) => call.raised # "none"

\* ============================================ properties of the two load paths
\* Positions, in the cleaned table, of the rows whose three service fields
\* were all absent in the file, in table order.
CleanedEligible ==
  LET cleaned == cleaned_of(input)
  IN  SortedSeq({i \in DOMAIN cleaned : /\ cleaned[i].Has_Table_booking = NaN
                                        /\ cleaned[i].Has_Online_delivery = NaN
                                        /\ cleaned[i].Is_delivering_now = NaN})

\* C12: the dataset of the UI is an imputed one too: for the rows of the same
\* file and the draws the server's load consumed, every eligible row of the
\* table load_data returns holds the sampled flags (draw < probability), not
\* the defaulted ones.
C12_BothFrontEndsServeImputedData ==
  call.pc \in {"write_booking", "write_delivery", "return", "done"} /\ drawn[1] # <<>> =>
    \A j \in DOMAIN CleanedEligible :
      LET ui == load_data(input)[CleanedEligible[j]]
          r  == call.restaurants_to_impute[j]
      IN  /\ ui.Has_Table_booking = DrawLess(drawn[1][j], r.prob_booking)
          /\ ui.Has_Online_delivery = DrawLess(drawn[2][j], r.prob_delivery)

\* ========================================== properties of the server's endpoints
\* C13: a data request (/api/data, /api/stats) is answered 200, or 500 with the
\* error 'Data not loaded'; the 500 is given only when the request's own load
\* attempt did not succeed.
C13_DataEndpointsFollowLoadState ==
  \A t \in Threads :
    (th[t].op = "data" /\ th[t].pc = "respond") =>
      \/ th[t].resp.status = 200
      \/ /\ th[t].resp.status = 500
         /\ th[t].resp.body = "Data not loaded"
         /\ ~th[t].success

\* C14: a health request is answered 200, with restaurant_count 0 when
\* data_loaded is false and the row count of a loaded dataset when it is true.
C14_HealthReportsHandle ==
  \A t \in Threads :
    (th[t].op = "health" /\ th[t].pc = "respond") =>
      /\ th[t].resp.status = 200
      /\ IF th[t].resp.data_loaded
         THEN th[t].resp.count \in {Len(cleaned_of(f)) : f \in CsvFiles}
         ELSE th[t].resp.count = 0

\* C15: with requests handled one at a time, the answer of a reload has
\* data_loaded equal to reload_successful and status 200 if the load succeeded,
\* 500 if not; a failed reload leaves the handle unset, and a read request
\* that finds the handle unset starts a load.
C15_ReloadOutcomeConsistency ==
  [][ \A t \in Threads :
        /\ (th[t].pc \in {"reload_count", "reload_len"} /\ th'[t].pc = "respond") =>
              /\ th'[t].resp.data_loaded = th[t].success
              /\ th'[t].resp.status = (IF th[t].success THEN 200 ELSE 500)
              /\ ~th[t].success => restaurant_data = None /\ restaurant_data' = None
        /\ (th[t].pc = "idle" /\ th'[t].op = "data" /\ restaurant_data = None) =>
              th'[t].pc = "load_read"
    ]_vars
\* A reload whose load failed inside the imputer (the file is there) has
\* answered 500, and the handle is unset.
C15_Witness ==
  \E t \in Threads :
    /\ th[t].op = "reload"
    /\ th[t].pc = "respond"
    /\ th[t].resp.status = 500
    /\ ~th[t].resp.data_loaded
    /\ csv = [exists |-> TRUE, rows |-> File2]
    /\ restaurant_data = None

\* The thread that takes the step, if a request thread does.
Acts(t) == th'[t] # th[t]

\* C17 as stated: when only read requests are made, the rows of the loaded
\* dataset never change and the handle is never unset once it is set.
C17_ReadsNeverChangeDataset ==
  [][ restaurant_data # None =>
        /\ restaurant_data' # None
        /\ heap'[restaurant_data'].df = heap[restaurant_data].df ]_vars

\* C17 amended: read requests never unset the handle and never change in
\* place the frame it refers to; the handle is assigned only by the step that
\* ends a load, a load is started only by a request that found the handle
\* unset, and the steps of a handler after its load check leave the handle
\* and every frame alone.
C17_ReadEndpointsReadOnly ==
  [][ /\ restaurant_data # None => restaurant_data' # None
      /\ restaurant_data' # restaurant_data =>
           \E t \in Threads : Acts(t) /\ th[t].pc = "load_assign"
      /\ \A t \in Threads :
           (th[t].pc = "idle" /\ th'[t].pc = "load_read") => restaurant_data = None
      /\ (restaurant_data # None /\ restaurant_data' = restaurant_data) =>
           heap'[restaurant_data] = heap[restaurant_data]
      /\ \A t \in Threads :
           (Acts(t) /\ th[t].pc \in {"ensure_recheck", "data_copy", "health_count",
                                     "health_len", "respond"}) =>
             (restaurant_data' = restaurant_data /\ heap' = heap)
    ]_vars
\* A data request that found the handle unset is about to assign the dataset
\* it loaded, whose rows differ from those of the dataset the handle already
\* refers to, from which another request's answer was made.
C17_Witness ==
  \E t, q \in Threads :
    /\ th[t].op = "data"
    /\ th[t].pc = "load_assign"
    /\ restaurant_data # None
    /\ heap[th[t].obj].df # heap[restaurant_data].df
    /\ th[q].op = "data"
    /\ th[q].pc = "respond"
    /\ th[q].resp.copied

\* A parameter that restricts the rows.
Restricts(x) == x \notin {NoArg, "", "all"}
\* The numeric parameters that restrict are numbers.
WellFormed(a) ==
  /\ Restricts(a.price_range) => IsInt(a.price_range)
  /\ Restricts(a.min_rating) => IsFloat(a.min_rating)
\* The row satisfies every active filter.
Satisfies(r, a) ==
  /\ Restricts(a.city) => r.City = a.city
  /\ Restricts(a.price_range) => r.Price_range = int(a.price_range)
  /\ Restricts(a.min_rating) => r.Aggregate_rating >= float(a.min_rating)
  /\ a.search # "" =>
       \E col \in {r.Restaurant_Name, r.Cuisines, r.City} :
         str_contains(lower(Chars(col)), lower(Chars(a.search)))

\* C16: for every loaded frame and every query string the filter of get_data,
\* the filter of get_stats and apply_filters give the same outcome, which is
\* the one the answering handler worked on; with numeric price_range and
\* min_rating that outcome is a row set, made of rows of the frame in their
\* order, exactly those satisfying every active filter; total_restaurants of
\* /api/stats is the number of records of /api/data.
C16_FilterAgreement ==
  (query.pc = "answered" /\ query.op \in {"data", "stats", "rating"}) =>
    LET a == query.args
        d == get_data_filtered_df(query.df, query.name_dtype, a)
        s == get_stats_filtered_df(query.df, query.name_dtype, a)
        f == apply_filters(query.df, query.name_dtype, a)
    IN  /\ d = s
        /\ s = f
        /\ query.op = "data" => query.filtered = d
        /\ query.op = "stats" => query.filtered = s
        /\ query.op = "rating" => query.filtered = f
        /\ WellFormed(a) => d.raised = "none"
        /\ d.raised = "none" =>
             /\ d.rows = SelectSeq(query.df, LAMBDA r : Satisfies(r, a))
             /\ \A i \in DOMAIN d.rows : \E j \in DOMAIN query.df : d.rows[i] = query.df[j]
        /\ (query.op = "stats" /\ query.status = 200) =>
             query.body.total_restaurants = Len(data_records(d.rows))
\* The five ranges of the rating, in tenths.
InRange(k, x) ==
  CASE k = 1 -> x >= 45
    [] k = 2 -> x >= 40 /\ x < 45
    [] k = 3 -> x >= 35 /\ x < 40
    [] k = 4 -> x >= 30 /\ x < 35
    [] k = 5 -> x < 30
\* C18: in the answer of the rating distribution, and in the chart of the UI,
\* every restaurant of the filtered set falls in exactly one of the five
\* ranges, each count is the number of restaurants of its range, and the five
\* counts add up to the size of the filtered set.
C18_RatingBucketsPartition ==
  (query.pc = "answered" /\ query.op \in {"rating", "chart"} /\ query.status = 200) =>
    LET rows == query.filtered.rows
        b == query.body
        counts == << b.Excellent, b.Very_Good, b.Good, b.Average, b.Poor >>
    IN  /\ \A i \in DOMAIN rows :
             Cardinality({k \in 1..5 : InRange(k, rows[i].Aggregate_rating)}) = 1
        /\ \A k \in 1..5 :
             counts[k] = Cardinality({i \in DOMAIN rows :
                                        InRange(k, rows[i].Aggregate_rating)})
        /\ counts[1] + counts[2] + counts[3] + counts[4] + counts[5] = Len(rows)
\* The rating distribution was answered for a min_rating filter that removed
\* a row and kept one whose rating lies on the bound 4.0, counted as Very Good.
C18_Witness ==
  /\ query.pc = "answered"
  /\ query.op = "rating"
  /\ Restricts(query.args.min_rating)
  /\ Len(query.filtered.rows) < Len(query.df)
  /\ \E i \in DOMAIN query.filtered.rows : query.filtered.rows[i].Aggregate_rating = 40
  /\ query.body.Very_Good = 1

\* C19: /api/insights answers every filter combination, one that matches no
\* restaurant included, with a list of insights and no exception; for a
\* non-empty filtered set the first entry names a restaurant of the largest
\* rating, and the 'Most Expensive City' entry is there iff some filtered row
\* has a positive cost.
C19_InsightsForEveryFilter ==
  (query.pc = "answered" /\ query.op = "insights") =>
    LET rows == query.filtered.rows
    IN  /\ query.status = 200
        /\ query.error = "none"
        /\ rows # <<>> =>
             /\ query.body[1].title = "Highest Rated Restaurant"
             /\ \E i \in DOMAIN rows :
                  /\ rows[i].Restaurant_Name = query.body[1].name
                  /\ rows[i].Aggregate_rating = query.body[1].value
                  /\ \A j \in DOMAIN rows :
                       rows[j].Aggregate_rating <= rows[i].Aggregate_rating
             /\ (\E j \in DOMAIN query.body : query.body[j].title = "Most Expensive City")
                  <=> (\E i \in DOMAIN rows : rows[i].Average_Cost_for_two > 0)
====
